---- MODULE Spec2Model ----
(***************************************************************************)
(* A model of the picwish client: API.request (error envelope and 429      *)
(* retry), Task.wait (poll loop), the PicWish operations built on them,    *)
(* and the byte cache of BaseImage.                                        *)
(*                                                                         *)
(* Python's None is the empty set and a present value x is {x}, so that an *)
(* optional field is always a set and never mixes types.                   *)
(***************************************************************************)
EXTENDS Integers, Sequences, FiniteSets, TLC

None == {}
Some(x) == {x}
Last(s) == s[Len(s)]
Front(s) == SubSeq(s, 1, Len(s) - 1)

(***************************************************************************)
(* Bounds of the model.                                                    *)
(***************************************************************************)
\* the server answers one request with at most this many rate-limit
\* responses in a row
MaxRetries == 2
\* the server answers one wait with at most this many non-terminal polls
MaxPolls == 2
\* text_to_image is called with max_attempts up to this
MaxAttempts == 3
\* get_bytes and download are called on one image at most this many times
MaxCalls == 3
\* expand is called with image_count up to this
MaxImageCount == 2
\* a Signature is built with at most this many headers
MaxHeaders == 3
\* a second header mapping is at most this many assignments and deletions
\* away from the first
MaxEdits == 2

(***************************************************************************)
(* The transport's answers.  A response is its HTTP status, the vendor     *)
(* status of its JSON envelope (None when the body has none) and the       *)
(* envelope's data object, of which the fields the client reads are kept.  *)
(***************************************************************************)
NoData ==
    [image |-> None, progress |-> None, mask |-> None, images |-> None,
     task_id |-> None, resource_id |-> None, oss |-> None,
     image_n |-> [n \in 1..MaxImageCount |-> None]]

Resp(status, api, data) ==
    [status_code |-> status, api_status |-> api, data |-> data]

\* HTTP statuses on both sides of every comparison request makes
HttpStatuses == {200, 399, 400, 429, 599, 600}
\* vendor statuses: absent, the two accepted ones, 429, and another one
ApiStatuses == {None, Some(0), Some(200), Some(429), Some(-1)}

\* what the transport may answer to a bare API.request
RequestResponses ==
    {Resp(s, a, [NoData EXCEPT !.image = Some("u1")]) :
        s \in HttpStatuses, a \in ApiStatuses}

\* the error envelopes the server answers to the calls of an operation:
\* rate limits, a server error, and the two block statuses
ErrorResponses ==
    {Resp(429, None, NoData), Resp(200, Some(429), NoData),
     Resp(500, None, NoData),
     Resp(200, Some(-1), NoData), Resp(200, Some(-10), NoData)}

RateLimitResponse(r) == r.status_code = 429 \/ r.api_status = Some(429)

Tokens == {"t1", "t2"}
RetryAfters == {None, Some(0), Some(1)}

VARIABLES
    retry_after,  \* API.retry_after: None or the delay
    token,        \* API.token
    rpc,          \* API.request: "idle", "sending", "sleeping", "returned", "raised"
    rargs,        \* the arguments request was called with
    sent,         \* the arguments of every transport call of this request, in order
    responses,    \* the transport's answers to this request, in order
    rsleeps,      \* asyncio.sleep(retry_after) calls of this request
    rresult,      \* what request returned or raised
    task,         \* Task.id, None before the task exists
    wpc,          \* Task.wait: "idle", "polling", "sleeping", "returned", "raised"
    polls,        \* what get_result returned to this wait, in order
    wsleeps,      \* asyncio.sleep(interval) calls of this wait
    wresult,      \* what wait returned or raised
    op,           \* the public operation that was called, "" before the call
    pc,           \* where the operation is: "idle", the call it awaits, "done", "raised"
    calls,        \* the API calls of the operation, in order, each with what it raised
    source,       \* the argument of the operations that take an image
    no_watermark, \* the argument of enhance and remove_background
    max_attempts, \* the argument of text_to_image
    image_count,  \* the argument of expand
    i,            \* text_to_image's loop variable
    data,         \* the local variable data of the operation
    result,       \* what the operation returned
    oerr,         \* what the operation raised
    attempts,     \* what each wait of text_to_image returned or raised, in order
    cached_bytes, \* BaseImage._cached_bytes
    callers,      \* each coroutine that calls the image: what it awaits
    ncalls,       \* get_bytes and download calls made on the image
    gets,         \* GETs of the image's url that were issued
    failed,       \* GETs of the image's url that raised
    cache_writes, \* every value assigned to _cached_bytes, in order
    returns,      \* every value get_bytes returned, in order
    files,        \* the bytes written to each path, None if none
    concurrent,   \* whether the caller starts a call while another awaits
    headers,      \* Signature.headers: the (name, value) pairs in insertion order
    other_headers, \* the headers of a second Signature with the same other fields
    bucket,       \* Signature.bucket
    object,       \* Signature.object
    sub_resources, \* Signature.sub_resources: (key, value) pairs in insertion order
    edits,        \* assignments and deletions made to other_headers
    sig_out,      \* the method of Signature that was called and what it gave
    client,       \* the PicWish object: http, sleep_duration, retry_after
    apis,         \* the API objects _init_api has built, in order
    ops           \* each coroutine that runs an operation on the client

apiVars == <<retry_after, token>>
reqVars == <<rpc, rargs, sent, responses, rsleeps, rresult>>
waitVars == <<wpc, polls, wsleeps, wresult>>
opVars == <<op, pc, task, source, no_watermark, max_attempts, image_count, i,
           data, result, oerr, attempts>>
imgVars == <<cached_bytes, callers, ncalls, gets, failed, cache_writes,
            returns, files, concurrent>>
sigVars == <<headers, other_headers, bucket, object, sub_resources, edits,
            sig_out>>
clientVars == <<client, apis, ops>>
vars == <<apiVars, reqVars, waitVars, opVars, calls, imgVars, sigVars,
          clientVars>>

NoResult == [returned |-> None, raised |-> None]
NoArgs == [method |-> "", url |-> <<"", "">>, auth |-> ""]
Returned(x) == [returned |-> Some(x), raised |-> None]
Raised(e) == [returned |-> None, raised |-> Some(e)]

(***************************************************************************)
(* API.request, lines 111-137.                                             *)
(***************************************************************************)
\* line 125: the response is an error
IsErrorFrom400(r) ==
    \/ (r.api_status # None /\ r.api_status \notin {Some(0), Some(200)})
    \/ r.status_code >= 400
IsError(r) ==
    \/ (r.api_status # None /\ r.api_status \notin {Some(0), Some(200)})
    \/ (400 =< r.status_code /\ r.status_code < 600)

\* line 126: the error is retried after a sleep
ShouldRetryAlways(r, ra) ==
    r.api_status = Some(429) \/ r.status_code = 429
ShouldRetry(r, ra) ==
    /\ (r.api_status = Some(429) \/ r.status_code = 429)
    /\ ra # None

\* lines 22-37, 135: PicwishError(message, self.token, status, api_status)
PicwishErrorNoApi(tok, r) ==
    [kind |-> "PicwishError", token |-> tok,
     status_code |-> Some(r.status_code), api_status |-> None]
PicwishError(tok, r) ==
    [kind |-> "PicwishError", token |-> tok,
     status_code |-> Some(r.status_code), api_status |-> r.api_status]

\* any other exception: of the HTTP client (line 112), a KeyError, ...
ExceptionWrapped(kind) ==
    [kind |-> "PicwishError", token |-> "", status_code |-> None,
     api_status |-> None]
Exception(kind) ==
    [kind |-> kind, token |-> "", status_code |-> None, api_status |-> None]

\* line 129: the arguments of the re-issued request
RetryArgsGet(a) == [a EXCEPT !.method = "GET"]
RetryArgsNoAuth(a) == [a EXCEPT !.auth = ""]
RetryArgs(a) == a

\* request is entered: line 112 issues the transport call
StartRequest(a) ==
    /\ rpc' = "sending"
    /\ rargs' = a
    /\ sent' = <<a>>
    /\ responses' = <<>>
    /\ rsleeps' = 0
    /\ rresult' = NoResult

\* lines 112-137: the transport answers r
http_response(r) ==
    /\ rpc = "sending"
    /\ responses' = Append(responses, r)
    /\ IF IsError(r)
       THEN IF ShouldRetry(r, retry_after)
            THEN /\ rpc' = "sleeping"
                 /\ rsleeps' = rsleeps + 1
                 /\ rresult' = rresult
            ELSE /\ rpc' = "raised"
                 /\ rsleeps' = rsleeps
                 /\ rresult' = Raised(PicwishError(token, r))
       ELSE /\ rpc' = "returned"
            /\ rsleeps' = rsleeps
            /\ rresult' = Returned(r)
    /\ UNCHANGED <<rargs, sent>>
    /\ UNCHANGED <<apiVars, imgVars, sigVars, clientVars, waitVars, opVars, calls>>

\* line 112 inside a try that treats a transport failure as a rate limit
http_raises_retried ==
    /\ rpc = "sending"
    /\ IF retry_after # None
       THEN /\ rpc' = "sleeping"
            /\ rsleeps' = rsleeps + 1
            /\ rresult' = rresult
       ELSE /\ rpc' = "raised"
            /\ rsleeps' = rsleeps
            /\ rresult' = Raised(Exception("TransportError"))
    /\ UNCHANGED <<rargs, sent, responses>>
    /\ UNCHANGED <<apiVars, imgVars, sigVars, clientVars, waitVars, opVars, calls>>

\* line 112 raises: the exception leaves request
http_raises ==
    /\ rpc = "sending"
    /\ rpc' = "raised"
    /\ rresult' = Raised(Exception("TransportError"))
    /\ UNCHANGED <<rargs, sent, responses, rsleeps>>
    /\ UNCHANGED <<apiVars, imgVars, sigVars, clientVars, waitVars, opVars, calls>>

\* lines 128-129: the sleep ends and the same request is issued again
retry_sleep ==
    /\ rpc = "sleeping"
    /\ rpc' = "sending"
    /\ sent' = Append(sent, RetryArgs(rargs))
    /\ UNCHANGED <<rargs, responses, rsleeps, rresult>>
    /\ UNCHANGED <<apiVars, imgVars, sigVars, clientVars, waitVars, opVars, calls>>

(***************************************************************************)
(* The API methods, lines 139-202: each is one request with the bearer     *)
(* token of the API instance.                                              *)
(***************************************************************************)
\* lines 335-338, 361-364, 397-399, 440-442, 477-479, 513-515: the route
\* of each operation
Route(o) ==
    CASE o = "enhance" ->
            [task |-> "/tasks/login/scale",
             image_url |-> "/tasks/login/image-url/scale"]
      [] o = "remove_background" ->
            [task |-> "/tasks/login/segmentation",
             image_url |-> "/tasks/login/image-url/segmentation"]
      [] o = "text_to_image" ->
            [task |-> "/tasks/login/external/text-to-image", image_url |-> ""]
      [] o = "ocr" -> [task |-> "/tasks/ocr", image_url |-> ""]
      [] o = "colorize" -> [task |-> "/tasks/colorization", image_url |-> ""]
      [] o = "expand" -> [task |-> "/tasks/login/image-expand", image_url |-> ""]
      [] OTHER -> [task |-> "/tasks", image_url |-> "/image-url"]

\* lines 104-109: the headers of an API call
Bearer(tok) == tok

ApiCall(name, method, path, id) ==
    /\ StartRequest([method |-> method, url |-> <<path, id>>,
                     auth |-> Bearer(token)])
    /\ calls' = Append(calls, [name |-> name, raised |-> None])

\* lines 139-152
create_before_upload == ApiCall("create_task", "POST", Route(op').task, "")
oss_authorizations == ApiCall("oss_authorizations", "POST", "/authorizations/oss", "")
\* lines 154-173
create_task(o) == ApiCall("create_task", "POST", Route(o).task, "")
\* lines 175-188
get_image_url(id) == ApiCall("get_image_url", "GET", Route(op).image_url, id)
\* lines 190-202
get_task_result(id) == ApiCall("get_task_result", "GET", Route(op).task, id)

\* the call in progress raised e
MarkRaised(e) ==
    calls' = [calls EXCEPT ![Len(calls)].raised = Some(e)]

(***************************************************************************)
(* Task.wait, lines 53-61.                                                 *)
(***************************************************************************)
\* a value is truthy: present and not empty
Truthy(v) == v # None /\ v # Some("")

\* line 59: the poll response ends the wait
TerminalProgressOnly(r) == r.data.progress = Some(100)
TerminalImageOnly(r) == Truthy(r.data.image)
Terminal(r) ==
    Truthy(r.data.image) \/ r.data.progress = Some(100)

\* wait is entered: line 58 calls get_result
StartWait(id) ==
    /\ wpc' = "polling"
    /\ polls' = <<>>
    /\ wsleeps' = 0
    /\ wresult' = NoResult
    /\ get_task_result(id)

\* lines 58-61: get_result returned
wait_poll_returned ==
    /\ wpc = "polling"
    /\ rpc = "returned"
    /\ \E r \in rresult.returned :
        /\ polls' = Append(polls, r)
        /\ IF Terminal(r)
           THEN /\ wpc' = "returned"
                /\ wresult' = Returned(r)
                /\ wsleeps' = wsleeps
           ELSE /\ wpc' = "sleeping"
                /\ wresult' = wresult
                /\ wsleeps' = wsleeps + 1
    /\ UNCHANGED <<apiVars, imgVars, sigVars, clientVars, reqVars, opVars, calls>>

\* line 58 with the exception swallowed: the loop goes on to the sleep
wait_poll_swallowed ==
    /\ wpc = "polling"
    /\ rpc = "raised"
    /\ \E e \in rresult.raised : MarkRaised(e)
    /\ wpc' = "sleeping"
    /\ wsleeps' = wsleeps + 1
    /\ UNCHANGED <<polls, wresult>>
    /\ UNCHANGED <<apiVars, imgVars, sigVars, clientVars, reqVars, opVars>>

\* line 58: get_result raised, and the exception leaves wait
wait_poll_raised ==
    /\ wpc = "polling"
    /\ rpc = "raised"
    /\ \E e \in rresult.raised :
        /\ wpc' = "raised"
        /\ wresult' = Raised(e)
        /\ MarkRaised(e)
    /\ UNCHANGED <<polls, wsleeps>>
    /\ UNCHANGED <<apiVars, imgVars, sigVars, clientVars, reqVars, opVars>>

\* line 61 with a cap on the attempts: after MaxPolls sleeps wait gives up
wait_sleep_gives_up ==
    /\ wpc = "sleeping"
    /\ IF wsleeps < MaxPolls
       THEN /\ wpc' = "polling"
            /\ \E id \in task : get_task_result(id)
            /\ UNCHANGED <<polls, wsleeps, wresult>>
       ELSE /\ wpc' = "raised"
            /\ wresult' = Raised(Exception("TimeoutError"))
            /\ UNCHANGED <<polls, wsleeps, reqVars, calls>>
    /\ UNCHANGED <<apiVars, imgVars, sigVars, clientVars, opVars>>

\* line 61: the sleep ends, line 58 calls get_result again
wait_sleep ==
    /\ wpc = "sleeping"
    /\ wpc' = "polling"
    /\ \E id \in task : get_task_result(id)
    /\ UNCHANGED <<polls, wsleeps, wresult>>
    /\ UNCHANGED <<apiVars, imgVars, sigVars, clientVars, opVars>>

\* the envelopes the server answers to a poll
PollDatas ==
    {NoData,
     [NoData EXCEPT !.progress = Some(50)],
     [NoData EXCEPT !.image = Some("")],
     [NoData EXCEPT !.progress = Some(100)],
     [NoData EXCEPT !.image = Some("u1")]}

PollResponses ==
    {Resp(200, Some(0), d) : d \in PollDatas} \cup ErrorResponses

\* a poll response that does not end the wait
Pending(r) == ~Truthy(r.data.image) /\ r.data.progress # Some(100)

\* the server answers the request in flight with one of rs: at most
\* MaxRetries rate limits in a row to one request, at most MaxPolls
\* non-terminal envelopes to the polls of one wait
Transport(rs) ==
    \E r \in rs :
        /\ RateLimitResponse(r) => Len(responses) < MaxRetries
        /\ (wpc = "polling" /\ r \notin ErrorResponses /\ Pending(r))
            => Len(polls) < MaxPolls
        /\ http_response(r)

(***************************************************************************)
(* Initial states.                                                         *)
(***************************************************************************)
InitApi ==
    /\ retry_after \in RetryAfters
    /\ token \in Tokens

InitRequestIdle ==
    /\ rpc = "idle"
    /\ rargs = NoArgs
    /\ sent = <<>>
    /\ responses = <<>>
    /\ rsleeps = 0
    /\ rresult = NoResult

InitWaitIdle ==
    /\ wpc = "idle"
    /\ polls = <<>>
    /\ wsleeps = 0
    /\ wresult = NoResult

InitOpIdle ==
    /\ op = ""
    /\ pc = "idle"
    /\ calls = <<>>
    /\ task = None
    /\ source = ""
    /\ no_watermark = FALSE
    /\ max_attempts = 0
    /\ image_count = 0
    /\ i = 0
    /\ data = None
    /\ result = None
    /\ oerr = None
    /\ attempts = <<>>

Callers == {1, 2}
Bytes == {"", "b1", "b2"}
Paths == {"p1", "p2"}
Idle == [pc |-> "idle", fn |-> "", output |-> ""]

InitImageIdle ==
    /\ cached_bytes = None
    /\ callers = [c \in Callers |-> Idle]
    /\ ncalls = 0
    /\ gets = 0
    /\ failed = 0
    /\ cache_writes = <<>>
    /\ returns = <<>>
    /\ files = [p \in Paths |-> None]
    /\ concurrent = FALSE

(***************************************************************************)
(* Signature, signature.py lines 8-101.  A str is the sequence of its     *)
(* characters; a dict is the sequence of its (key, value) pairs in         *)
(* insertion order, with no key twice.                                     *)
(***************************************************************************)
UpperCase == <<"A", "B", "C", "D", "E", "F", "G", "H", "I", "J", "K", "L", "M",
               "N", "O", "P", "Q", "R", "S", "T", "U", "V", "W", "X", "Y", "Z">>
LowerCase == <<"a", "b", "c", "d", "e", "f", "g", "h", "i", "j", "k", "l", "m",
               "n", "o", "p", "q", "r", "s", "t", "u", "v", "w", "x", "y", "z">>
\* the characters of the model in the order of their code points
CodePoints == <<"\n", "&", "-", "/", "0", "1", "2", ":", "=", "?">>
              \o UpperCase \o LowerCase
Chars == {CodePoints[k] : k \in 1..Len(CodePoints)}
OrdTable == [c \in Chars |-> CHOOSE k \in 1..Len(CodePoints) : CodePoints[k] = c]
Ord(c) == OrdTable[c]

\* str.lower()
LowerTable ==
    [c \in Chars |->
        IF \E k \in 1..Len(UpperCase) : UpperCase[k] = c
        THEN LowerCase[CHOOSE k \in 1..Len(UpperCase) : UpperCase[k] = c]
        ELSE c]
LowerChar(c) == LowerTable[c]
Lower(str) == [k \in 1..Len(str) |-> LowerChar(str[k])]

\* str.startswith(prefix)
StartsWith(str, prefix) ==
    /\ Len(prefix) =< Len(str)
    /\ SubSeq(str, 1, Len(prefix)) = prefix

\* a < b for two str, as list.sort compares them
RECURSIVE StrLess(_, _)
StrLess(a, b) ==
    IF b = <<>> THEN FALSE
    ELSE IF a = <<>> THEN TRUE
    ELSE IF a[1] # b[1] THEN Ord(a[1]) < Ord(b[1])
    ELSE StrLess(Tail(a), Tail(b))

\* the str of a set in ascending order
RECURSIVE Ascending(_)
Ascending(S) ==
    IF S = {} THEN <<>>
    ELSE LET m == CHOOSE x \in S : \A y \in S : x = y \/ StrLess(x, y)
         IN  <<m>> \o Ascending(S \ {m})

\* sep.join(list)
RECURSIVE Join(_, _)
Join(sep, list) ==
    IF list = <<>> THEN <<>>
    ELSE IF Len(list) = 1 THEN list[1]
    ELSE list[1] \o sep \o Join(sep, Tail(list))

\* dict: d[k] = v keeps the place of a key that is there, del d[k], k in d,
\* d[k]
DictSet(d, k, v) ==
    IF \E j \in 1..Len(d) : d[j][1] = k
    THEN [j \in 1..Len(d) |-> IF d[j][1] = k THEN <<k, v>> ELSE d[j]]
    ELSE Append(d, <<k, v>>)
DictDel(d, k) == SelectSeq(d, LAMBDA e : e[1] # k)
HasKeyAlways(d, k) == TRUE
HasKey(d, k) == \E j \in 1..Len(d) : d[j][1] = k
GetItem(d, k) ==
    IF \E j \in 1..Len(d) : d[j][1] = k
    THEN d[CHOOSE j \in 1..Len(d) : d[j][1] = k][2]
    ELSE <<>>
Keys(d) == [j \in 1..Len(d) |-> d[j][1]]

\* line 48: {k.lower(): v for k, v in self.headers.items()}
RECURSIVE LowerKeys(_)
LowerKeys(d) ==
    IF d = <<>> THEN <<>>
    ELSE LET e == d[Len(d)]
         IN  DictSet(LowerKeys(SubSeq(d, 1, Len(d) - 1)), Lower(e[1]), e[2])

\* lines 49-50: the keys, lower-cased and sorted
KeysUnsorted(ks) == ks
SortedKeys(ks) == Ascending({Lower(ks[j]) : j \in 1..Len(ks)})

\* line 54: k.startswith('x-oss-')
OssPrefix == <<"x", "-", "o", "s", "s", "-">>
IsOssHeaderShort(k) == StartsWith(k, <<"x", "-">>)
IsOssHeader(k) == StartsWith(k, OssPrefix)

\* lines 39-56
CanonicalizedOSSHeaders(hs) ==
    LET lowered == LowerKeys(hs)
        keys == SortedKeys(Keys(lowered))
        kept == SelectSeq(keys, IsOssHeader)
        l == [j \in 1..Len(kept) |->
                kept[j] \o <<":">> \o GetItem(lowered, kept[j])]
    IN  Join(<<"\n">>, l)

\* lines 67-68: the bucket and the object, each after a slash, or nothing
\* for an empty one
SegmentAlways(name) == <<"/">> \o name
Segment(name) == IF name # <<>> THEN <<"/">> \o name ELSE <<>>

\* lines 58-72
CanonicalizedResource(b, o, sub) ==
    LET resource_path == Segment(b) \o Segment(o)
        query_params ==
            Join(<<"&">>, [j \in 1..Len(sub) |->
                            sub[j][1] \o <<"=">> \o sub[j][2]])
    IN  IF sub # <<>>
        THEN resource_path \o <<"?">> \o query_params
        ELSE resource_path

\* the header names make_signature reads, lines 93-94
ContentType == <<"C", "o", "n", "t", "e", "n", "t", "-", "T", "y", "p", "e">>
XOssDate == <<"X", "-", "O", "s", "s", "-", "D", "a", "t", "e">>
\* lines 258-266: what _signature signs with
Verb == <<"P", "U", "T">>
ContentMd5 == <<>>
AccessKeySecret == <<"s">>
AccessKeyId == <<"i">>
\* line 269: the header _signature adds once the signature is made, its
\* value kept as the parts it is formatted from
Authorization ==
    <<"A", "u", "t", "h", "o", "r", "i", "z", "a", "t", "i", "o", "n">>
AuthorizationValue(sig) == <<"OSS", AccessKeyId, sig>>

\* lines 99-100: base64 of the HMAC-SHA1 of the string under the key, kept
\* as the pair it is computed from: two signatures are equal exactly when
\* key and string are
HmacSha1Base64(key, string_to_sign) ==
    [key |-> key, string_to_sign |-> string_to_sign]

\* lines 90-97 with the first two fields in the other order
make_signature_md5_first(hs, b, o, sub) ==
    IF ~HasKey(hs, ContentType) \/ ~HasKey(hs, XOssDate)
    THEN Raised(Exception("KeyError"))
    ELSE LET l == <<ContentMd5, Verb, GetItem(hs, ContentType),
                    GetItem(hs, XOssDate), CanonicalizedOSSHeaders(hs),
                    CanonicalizedResource(b, o, sub)>>
         IN  Returned(HmacSha1Base64(AccessKeySecret, Join(<<"\n">>, l)))

\* lines 74-101: the signature, or the KeyError of line 93 or 94
make_signature(hs, b, o, sub) ==
    IF ~HasKey(hs, ContentType) \/ ~HasKey(hs, XOssDate)
    THEN Raised(Exception("KeyError"))
    ELSE LET l == <<Verb, ContentMd5, GetItem(hs, ContentType),
                    GetItem(hs, XOssDate), CanonicalizedOSSHeaders(hs),
                    CanonicalizedResource(b, o, sub)>>
         IN  Returned(HmacSha1Base64(AccessKeySecret, Join(<<"\n">>, l)))

\* the inputs of the model: header names on both sides of the prefix
\* test, two of them equal up to case
XOssA == <<"X", "-", "O", "s", "s", "-", "A">>
xossa == <<"x", "-", "o", "s", "s", "-", "a">>
XOs == <<"X", "-", "O", "s">>
HeaderNames == {ContentType, XOssDate, XOssA, xossa, XOs}
HeaderValues == {<<"1">>, <<"2">>}
SubKeys == {<<"a">>, <<"b">>}
Buckets == {<<>>, <<"b">>}
Objects == {<<>>, <<"o">>, <<"k", "/", "o">>}

IsDict(d) == \A j, k \in 1..Len(d) : d[j][1] = d[k][1] => j = k
Dicts(keys, values, n) ==
    {d \in UNION {[1..m -> keys \X values] : m \in 0..n} : IsDict(d)}

DefaultHeaders == <<<<ContentType, <<"1">>>>, <<XOssDate, <<"1">>>>>>

InitSignatureIdle ==
    /\ headers = DefaultHeaders
    /\ other_headers = DefaultHeaders
    /\ bucket = <<"b">>
    /\ object = <<"o">>
    /\ sub_resources = <<>>
    /\ edits = 0
    /\ sig_out = None

\* the coroutines that run operations on one client
Coroutines == {1, 2}
IdleOp ==
    [name |-> "", pc |-> "idle", api |-> 0, task |-> None, requests |-> <<>>,
     answers |-> <<>>, slept |-> <<>>, result |-> NoResult]

InitClientIdle ==
    /\ client = [http |-> "http", sleep_duration |-> 1, retry_after |-> None]
    /\ apis = <<>>
    /\ ops = [c \in Coroutines |-> IdleOp]

(***************************************************************************)
(* SpecRequest: one call of API.request on a fresh API instance.           *)
(***************************************************************************)
Methods == {"GET", "POST"}

InitRequest ==
    /\ InitApi
    /\ InitRequestIdle
    /\ InitWaitIdle
    /\ InitOpIdle
    /\ InitImageIdle
    /\ InitSignatureIdle
    /\ InitClientIdle

request(m) ==
    /\ rpc = "idle"
    /\ StartRequest([method |-> m, url |-> <<"/tasks", "">>,
                     auth |-> Bearer(token)])
    /\ UNCHANGED <<apiVars, imgVars, sigVars, clientVars, waitVars, opVars, calls>>

NextRequest ==
    \/ \E m \in Methods : request(m)
    \/ Transport(RequestResponses)
    \/ http_raises
    \/ retry_sleep

SpecRequest == InitRequest /\ [][NextRequest]_vars

(***************************************************************************)
(* SpecWait: one call of Task.wait on a task that exists.                  *)
(***************************************************************************)
TaskIds == {"k1", "k2"}

InitWait ==
    /\ InitApi
    /\ InitRequestIdle
    /\ InitWaitIdle
    /\ InitOpIdle
    /\ InitImageIdle
    /\ InitSignatureIdle
    /\ InitClientIdle

wait(id) ==
    /\ wpc = "idle"
    /\ task' = Some(id)
    /\ StartWait(id)
    /\ UNCHANGED <<op, pc, source, no_watermark, max_attempts,
                   image_count, i, data, result, oerr,
                   attempts>>
    /\ UNCHANGED <<apiVars, imgVars, sigVars, clientVars>>

NextWait ==
    \/ \E id \in TaskIds : wait(id)
    \/ Transport(PollResponses)
    \/ http_raises
    \/ retry_sleep
    \/ wait_poll_returned
    \/ wait_poll_raised
    \/ wait_sleep

SpecWait == InitWait /\ [][NextWait]_vars

\* SpecWait under fair scheduling: the event loop resumes a coroutine whose
\* awaited request or sleep has finished; nothing makes the server answer
SpecWaitFair ==
    /\ InitWait
    /\ [][NextWait]_vars
    /\ WF_vars(wait_poll_returned)
    /\ WF_vars(wait_poll_raised)
    /\ WF_vars(wait_sleep)
    /\ WF_vars(retry_sleep)

(***************************************************************************)
(* The operations of PicWish.                                              *)
(***************************************************************************)
\* what the caller passes as source
Sources == {"path", "bytes", "path_unknown_extension", "missing_path",
            "unknown_bytes", "other"}

\* lines 284-296, _process_source: the exception it raises, None if none
ProcessSourceNoGuess(src) ==
    CASE src = "missing_path" -> Some(Exception("OSError"))
      [] src = "other" -> Some(Exception("TypeError"))
      [] OTHER -> None
ProcessSource(src) ==
    CASE src = "missing_path" -> Some(Exception("OSError"))
      [] src = "unknown_bytes" -> Some(Exception("AttributeError"))
      [] src = "other" -> Some(Exception("TypeError"))
      [] OTHER -> None

\* lines 288, 293: the mimetype, None when the extension tells none
Mimetype(src) ==
    IF src = "path_unknown_extension" THEN None ELSE Some("image/jpeg")

OpRaises(e) ==
    /\ pc' = "raised"
    /\ oerr' = Some(e)

\* lines 339-340, 365-366: _init_api, then _create_task enters
\* _get_resource_id, which reads the source and asks for the upload
\* authorization (lines 298-300)
image_operation(name, nw, src) ==
    /\ pc = "idle"
    /\ op' = name
    /\ no_watermark' = nw
    /\ source' = src
    /\ IF ProcessSource(src) = None
       THEN /\ oss_authorizations
            /\ pc' = "oss"
            /\ oerr' = oerr
       ELSE /\ \E e \in ProcessSource(src) : OpRaises(e)
            /\ UNCHANGED <<reqVars, calls>>
    /\ UNCHANGED <<task, max_attempts, i, data, result, attempts>>
    /\ UNCHANGED <<apiVars, imgVars, sigVars, clientVars, waitVars>>

\* lines 315-340
enhance(nw, src) ==
    /\ image_operation("enhance", nw, src)
    /\ image_count' = image_count
\* lines 349-366
remove_background(nw, src) ==
    /\ image_operation("remove_background", nw, src)
    /\ image_count' = image_count
\* lines 375-402
ocr(src) ==
    /\ image_operation("ocr", no_watermark, src)
    /\ image_count' = image_count
\* lines 467-481
colorize(src) ==
    /\ image_operation("colorize", no_watermark, src)
    /\ image_count' = image_count
\* lines 485-526
expand(src, n) ==
    /\ image_operation("expand", no_watermark, src)
    /\ image_count' = n

\* the operations that take a source image
SourceOps == {"enhance", "remove_background", "ocr", "colorize", "expand"}

\* lines 300-303: oss_authorizations returned; _signature reads the
\* authorization and signs with the mimetype, then the upload is issued
oss_returned ==
    /\ pc = "oss"
    /\ rpc = "returned"
    /\ \E r \in rresult.returned :
        IF r.data.oss = None
        THEN /\ OpRaises(Exception("KeyError"))
             /\ UNCHANGED <<reqVars, calls>>
        ELSE IF Mimetype(source) = None
        THEN /\ OpRaises(Exception("TypeError"))
             /\ UNCHANGED <<reqVars, calls>>
        ELSE /\ StartRequest([method |-> "PUT", url |-> <<"oss", "">>,
                              auth |-> "OSS"])
             /\ calls' = Append(calls, [name |-> "put", raised |-> None])
             /\ pc' = "put"
             /\ oerr' = oerr
    /\ UNCHANGED <<op, task, source, no_watermark, max_attempts,
                   image_count, i, data, result,
                   attempts>>
    /\ UNCHANGED <<apiVars, imgVars, sigVars, clientVars, waitVars>>

\* lines 303-304, 310-311: the upload returned; create_task is called
\* with the resource id
put_returned ==
    /\ pc = "put"
    /\ rpc = "returned"
    /\ \E r \in rresult.returned :
        IF r.data.resource_id = None
        THEN /\ OpRaises(Exception("KeyError"))
             /\ UNCHANGED <<reqVars, calls>>
        ELSE /\ create_task(op)
             /\ pc' = "create"
             /\ oerr' = oerr
    /\ UNCHANGED <<op, task, source, no_watermark, max_attempts,
                   image_count, i, data, result,
                   attempts>>
    /\ UNCHANGED <<apiVars, imgVars, sigVars, clientVars, waitVars>>

\* lines 312-313, then 341, 367, 457: create_task returned; the Task is
\* built from data.task_id and wait is entered
create_returned ==
    /\ pc = "create"
    /\ rpc = "returned"
    /\ \E r \in rresult.returned :
        IF r.data.task_id = None
        THEN /\ OpRaises(Exception("KeyError"))
             /\ UNCHANGED <<reqVars, waitVars, calls, task>>
        ELSE /\ \E id \in r.data.task_id :
                    /\ task' = Some(id)
                    /\ StartWait(id)
             /\ pc' = "wait"
             /\ oerr' = oerr
    /\ UNCHANGED <<op, source, no_watermark, max_attempts,
                   image_count, i, data, result, attempts>>
    /\ UNCHANGED <<apiVars, imgVars, sigVars, clientVars>>

\* an API call of the operation raised outside wait: nothing catches it
call_raised ==
    /\ pc \in {"oss", "put", "create", "image_url"}
    /\ rpc = "raised"
    /\ \E e \in rresult.raised :
        /\ OpRaises(e)
        /\ MarkRaised(e)
    /\ UNCHANGED <<op, task, source, no_watermark, max_attempts,
                   image_count, i, data, result,
                   attempts>>
    /\ UNCHANGED <<apiVars, imgVars, sigVars, clientVars, reqVars, waitVars>>

\* lines 343-345, 369-371: the watermark flag of the result
WatermarkAlways(nw) == TRUE
Watermark(nw) == ~nw

\* lines 347, 373: the result is built from data; a field that is missing
\* raises KeyError
Materialize(d) ==
    IF d.data.image = None \/ (op = "remove_background" /\ d.data.mask = None)
    THEN /\ OpRaises(Exception("KeyError"))
         /\ result' = result
    ELSE /\ pc' = "done"
         /\ oerr' = oerr
         /\ result' = Some([url |-> d.data.image,
                            watermark |-> Watermark(no_watermark),
                            mask |-> IF op = "remove_background"
                                     THEN d.data.mask ELSE None])

\* lines 341-347, 367-373: wait returned
image_wait_returned ==
    /\ op \in {"enhance", "remove_background"}
    /\ pc = "wait"
    /\ wpc = "returned"
    /\ \E r \in wresult.returned :
        /\ data' = Some(r)
        /\ IF no_watermark
           THEN /\ \E id \in task : get_image_url(id)
                /\ pc' = "image_url"
                /\ UNCHANGED <<result, oerr>>
           ELSE /\ Materialize(r)
                /\ UNCHANGED <<reqVars, calls>>
    /\ UNCHANGED <<op, task, source, no_watermark, max_attempts,
                   image_count, i, attempts>>
    /\ UNCHANGED <<apiVars, imgVars, sigVars, clientVars, waitVars>>

\* line 346: data = await task.get_image_url()
ImageUrlDataKept(r) == data
ImageUrlData(r) == Some(r)

\* lines 346-347, 372-373: get_image_url returned
image_url_returned ==
    /\ pc = "image_url"
    /\ rpc = "returned"
    /\ \E r \in rresult.returned :
        /\ data' = ImageUrlData(r)
        /\ \E d \in data' : Materialize(d)
    /\ UNCHANGED <<op, task, source, no_watermark, max_attempts,
                   image_count, i, attempts>>
    /\ UNCHANGED <<apiVars, imgVars, sigVars, clientVars, reqVars, waitVars, calls>>

\* lines 404, 483: the result is built from data.image, KeyError without it
ReturnImage(d) ==
    IF d.data.image = None
    THEN /\ OpRaises(Exception("KeyError"))
         /\ result' = result
    ELSE /\ pc' = "done"
         /\ oerr' = oerr
         /\ result' = Some([url |-> d.data.image])

\* line 528: range(1, image_count+1), the numbers of the fields read
ExpandIndicesShort(n) == [k \in 1..(n - 1) |-> k]
ExpandIndices(n) == [k \in 1..n |-> k]

\* line 528: one result per number, from data.image{number}; KeyError
\* when the envelope lacks one of the fields
ExpandResults(d, n) ==
    LET idx == ExpandIndices(n)
    IN  IF \E k \in DOMAIN idx : d.data.image_n[idx[k]] = None
        THEN /\ OpRaises(Exception("KeyError"))
             /\ result' = result
        ELSE /\ pc' = "done"
             /\ oerr' = oerr
             /\ result' = Some([images |->
                                 [k \in DOMAIN idx |-> d.data.image_n[idx[k]]]])

\* lines 403-404, 482-483, 527-528: wait returned to ocr, colorize, expand
source_wait_returned ==
    /\ op \in {"ocr", "colorize", "expand"}
    /\ pc = "wait"
    /\ wpc = "returned"
    /\ \E r \in wresult.returned :
        /\ data' = Some(r)
        /\ IF op = "expand"
           THEN ExpandResults(r, image_count)
           ELSE ReturnImage(r)
    /\ UNCHANGED <<op, task, source, no_watermark, max_attempts,
                   image_count, i, attempts>>
    /\ UNCHANGED <<apiVars, imgVars, sigVars, clientVars, reqVars, waitVars, calls>>

\* lines 341, 367, 403, 482, 527: wait raised, and nothing catches it
image_wait_raised ==
    /\ op \in SourceOps
    /\ pc = "wait"
    /\ wpc = "raised"
    /\ \E e \in wresult.raised : OpRaises(e)
    /\ UNCHANGED <<op, task, source, no_watermark, max_attempts,
                   image_count, i, data, result,
                   attempts>>
    /\ UNCHANGED <<apiVars, imgVars, sigVars, clientVars, reqVars, waitVars, calls>>

(***************************************************************************)
(* text_to_image, lines 443-465.                                           *)
(***************************************************************************)
\* line 459: the error is a block status
IsBlockAnyStatus(e) == e.kind = "PicwishError"
IsBlock(e) ==
    e.kind = "PicwishError" /\ e.api_status \in {Some(-1), Some(-10)}

\* line 465: the results are built from data; data is unbound when the
\* loop body never ran, and data.images may be missing
ReturnImages ==
    IF data' = None
    THEN /\ OpRaises(Exception("UnboundLocalError"))
         /\ result' = result
    ELSE \E d \in data' :
        IF d.data.images = None
        THEN /\ OpRaises(Exception("KeyError"))
             /\ result' = result
        ELSE /\ pc' = "done"
             /\ oerr' = oerr
             /\ result' = Some([images |-> d.data.images])

\* lines 454-455: the next value of i, if range(max_attempts) has one,
\* starts a create+poll cycle; otherwise the loop ends at line 465
NextAttempt(n) ==
    IF n < max_attempts'
    THEN /\ i' = n
         /\ create_task("text_to_image")
         /\ pc' = "create"
         /\ UNCHANGED <<result, oerr>>
    ELSE /\ i' = i
         /\ ReturnImages
         /\ UNCHANGED <<reqVars, calls>>

\* lines 443-455: text_to_image is called
text_to_image(n) ==
    /\ pc = "idle"
    /\ op' = "text_to_image"
    /\ max_attempts' = n
    /\ data' = data
    /\ NextAttempt(0)
    /\ UNCHANGED <<task, source, no_watermark, image_count, attempts>>
    /\ UNCHANGED <<apiVars, imgVars, sigVars, clientVars, waitVars>>

\* line 457, then line 454: wait returned, and the loop goes on
t2i_wait_returned ==
    /\ op = "text_to_image"
    /\ pc = "wait"
    /\ wpc = "returned"
    /\ \E r \in wresult.returned :
        /\ data' = Some(r)
        /\ attempts' = Append(attempts, Returned(r))
    /\ max_attempts' = max_attempts
    /\ NextAttempt(i + 1)
    /\ UNCHANGED <<op, task, source, no_watermark, image_count>>
    /\ UNCHANGED <<apiVars, imgVars, sigVars, clientVars, waitVars>>

\* lines 458-463: wait raised
t2i_wait_raised ==
    /\ op = "text_to_image"
    /\ pc = "wait"
    /\ wpc = "raised"
    /\ max_attempts' = max_attempts
    /\ data' = data
    /\ \E e \in wresult.raised :
        /\ attempts' = Append(attempts, Raised(e))
        /\ IF /\ e.kind = "PicwishError"
              /\ IsBlock(e)
              /\ i + 1 < max_attempts
           THEN NextAttempt(i + 1)
           ELSE /\ OpRaises(e)
                /\ UNCHANGED <<i, result, reqVars, calls>>
    /\ UNCHANGED <<op, task, source, no_watermark, image_count>>
    /\ UNCHANGED <<apiVars, imgVars, sigVars, clientVars, waitVars>>

\* the error envelopes the server answers to the calls of an operation
OperationErrors ==
    {Resp(429, None, NoData), Resp(500, None, NoData),
     Resp(200, Some(-1), NoData), Resp(200, Some(-10), NoData)}

Ok(datas) == {Resp(200, Some(0), d) : d \in datas}

\* the url the server stores in data.image{n} when expand completes
ExpandedUrl(n) == <<"e", n>>
ExpandedUrls == [n \in 1..MaxImageCount |-> Some(ExpandedUrl(n))]

\* what the server answers to each call of an image operation: the
\* envelope the client expects, envelopes that lack a field, and errors
ImageAnswers(name) ==
    OperationErrors \cup
    CASE name = "oss_authorizations" ->
            Ok({NoData, [NoData EXCEPT !.oss = Some("o1")]})
      [] name = "put" ->
            Ok({NoData, [NoData EXCEPT !.resource_id = Some("r1")]})
      [] name = "create_task" ->
            Ok({NoData, [NoData EXCEPT !.task_id = Some("k1")]})
      [] name = "get_task_result" /\ op # "expand" ->
            Ok({[NoData EXCEPT !.progress = Some(50)],
                [NoData EXCEPT !.progress = Some(100)],
                [NoData EXCEPT !.image = Some("u1")],
                [NoData EXCEPT !.progress = Some(100), !.image = Some("u1"),
                               !.mask = Some("m1")]})
      [] name = "get_task_result" /\ op = "expand" ->
            Ok({[NoData EXCEPT !.progress = Some(50)],
                [NoData EXCEPT !.progress = Some(100)],
                [NoData EXCEPT !.progress = Some(100), !.image_n = ExpandedUrls],
                [NoData EXCEPT !.image = Some("u1"), !.image_n = ExpandedUrls],
                [NoData EXCEPT !.progress = Some(100),
                               !.image_n[1] = Some(ExpandedUrl(1))]})
      [] OTHER ->
            Ok({NoData,
                [NoData EXCEPT !.image = Some("u1"), !.mask = Some("m1")],
                [NoData EXCEPT !.image = Some("u2"), !.mask = Some("m2")]})

\* what the server answers to each call of text_to_image
T2IAnswers(name) ==
    OperationErrors \cup
    CASE name = "create_task" ->
            Ok({NoData, [NoData EXCEPT !.task_id = Some("k1")]})
      [] OTHER ->
            Ok({[NoData EXCEPT !.progress = Some(50)],
                [NoData EXCEPT !.progress = Some(100)],
                [NoData EXCEPT !.progress = Some(100),
                               !.images = Some(<<"u1">>)],
                [NoData EXCEPT !.progress = Some(100),
                               !.images = Some(<<"u2", "u3">>)]})

\* the server answers the API call in flight
ImageServer ==
    /\ rpc = "sending"
    /\ Transport(ImageAnswers(Last(calls).name))

T2IServer ==
    /\ rpc = "sending"
    /\ Transport(T2IAnswers(Last(calls).name))

(***************************************************************************)
(* SpecImageOp: one call of an operation that takes a source image, on a   *)
(* fresh client.                                                           *)
(***************************************************************************)
InitImageOp ==
    /\ InitApi
    /\ InitRequestIdle
    /\ InitWaitIdle
    /\ InitOpIdle
    /\ InitImageIdle
    /\ InitSignatureIdle
    /\ InitClientIdle

NextImageOp ==
    \/ \E nw \in BOOLEAN, src \in Sources : enhance(nw, src)
    \/ \E nw \in BOOLEAN, src \in Sources : remove_background(nw, src)
    \/ \E src \in Sources : ocr(src)
    \/ \E src \in Sources : colorize(src)
    \/ \E src \in Sources, n \in 0..MaxImageCount : expand(src, n)
    \/ ImageServer
    \/ http_raises
    \/ retry_sleep
    \/ oss_returned
    \/ put_returned
    \/ create_returned
    \/ call_raised
    \/ wait_poll_returned
    \/ wait_poll_raised
    \/ wait_sleep
    \/ image_wait_returned
    \/ image_wait_raised
    \/ image_url_returned
    \/ source_wait_returned

SpecImageOp == InitImageOp /\ [][NextImageOp]_vars

(***************************************************************************)
(* SpecT2I: one call of text_to_image on a fresh client that retries rate  *)
(* limits; a client that does not is run under SpecOperation.              *)
(***************************************************************************)
InitT2I ==
    /\ retry_after = Some(1)
    /\ token = "t1"
    /\ InitRequestIdle
    /\ InitWaitIdle
    /\ InitOpIdle
    /\ InitImageIdle
    /\ InitSignatureIdle
    /\ InitClientIdle

NextT2I ==
    \/ \E n \in -1..MaxAttempts : text_to_image(n)
    \/ T2IServer
    \/ http_raises
    \/ retry_sleep
    \/ create_returned
    \/ call_raised
    \/ wait_poll_returned
    \/ wait_poll_raised
    \/ wait_sleep
    \/ t2i_wait_returned
    \/ t2i_wait_raised

SpecT2I == InitT2I /\ [][NextT2I]_vars

(***************************************************************************)
(* SpecOperation: one call of any operation on a fresh client, the image   *)
(* operations as in SpecImageOp and text_to_image with two attempts.       *)
(***************************************************************************)
InitOperation ==
    /\ retry_after \in {None, Some(1)}
    /\ token \in Tokens
    /\ InitRequestIdle
    /\ InitWaitIdle
    /\ InitOpIdle
    /\ InitImageIdle
    /\ InitSignatureIdle
    /\ InitClientIdle

NextOperation ==
    \/ op # "text_to_image" /\ NextImageOp
    \/ text_to_image(2)
    \/ op = "text_to_image" /\ T2IServer
    \/ op = "text_to_image" /\ http_raises
    \/ op = "text_to_image" /\ retry_sleep
    \/ op = "text_to_image" /\ create_returned
    \/ op = "text_to_image" /\ call_raised
    \/ op = "text_to_image" /\ wait_poll_returned
    \/ op = "text_to_image" /\ wait_poll_raised
    \/ op = "text_to_image" /\ wait_sleep
    \/ t2i_wait_returned
    \/ t2i_wait_raised

SpecOperation == InitOperation /\ [][NextOperation]_vars

(***************************************************************************)
(* BaseImage, image_models.py lines 9-37.                                  *)
(***************************************************************************)
\* line 25: the cache is empty
CacheMissFalsy(cb) == cb = None \/ cb = Some("")
CacheMiss(cb) == cb = None

\* line 28, and line 37 for download: get_bytes returns b to caller c
ReturnBytes(c, fn, output, b) ==
    /\ returns' = Append(returns, b)
    /\ files' = IF fn = "download" THEN [files EXCEPT ![output] = Some(b)]
                ELSE files
    /\ callers' = [callers EXCEPT ![c] = Idle]

\* lines 25-26 (from download, line 37): caller c enters get_bytes, which
\* returns the cache or issues the GET and awaits it
call_image(c, fn, output) ==
    /\ callers[c].pc = "idle"
    /\ ncalls < MaxCalls
    /\ concurrent \/ \A d \in Callers : callers[d].pc = "idle"
    /\ ncalls' = ncalls + 1
    /\ IF CacheMiss(cached_bytes)
       THEN /\ gets' = gets + 1
            /\ callers' = [callers EXCEPT
                             ![c] = [pc |-> "awaiting", fn |-> fn,
                                     output |-> output]]
            /\ UNCHANGED <<returns, files>>
       ELSE /\ \E b \in cached_bytes : ReturnBytes(c, fn, output, b)
            /\ gets' = gets
    /\ UNCHANGED <<cached_bytes, failed, cache_writes, concurrent>>
    /\ UNCHANGED <<apiVars, reqVars, waitVars, opVars, calls, sigVars,
                   clientVars>>

get_bytes(c) == call_image(c, "get_bytes", "")
download(c, output) == call_image(c, "download", output)

\* lines 26-28: the GET of caller c is answered with content b
get_returned(c, b) ==
    /\ callers[c].pc = "awaiting"
    /\ cached_bytes' = Some(b)
    /\ cache_writes' = Append(cache_writes, b)
    /\ \E r \in cached_bytes' :
        ReturnBytes(c, callers[c].fn, callers[c].output, r)
    /\ UNCHANGED <<ncalls, gets, failed, concurrent>>
    /\ UNCHANGED <<apiVars, reqVars, waitVars, opVars, calls, sigVars,
                   clientVars>>

\* line 26 raises: the exception leaves get_bytes, the cache stays empty
get_raised(c) ==
    /\ callers[c].pc = "awaiting"
    /\ failed' = failed + 1
    /\ callers' = [callers EXCEPT ![c] = Idle]
    /\ UNCHANGED <<cached_bytes, ncalls, gets, cache_writes, returns, files,
                   concurrent>>
    /\ UNCHANGED <<apiVars, reqVars, waitVars, opVars, calls, sigVars,
                   clientVars>>

(***************************************************************************)
(* SpecImage: get_bytes and download calls on one result, one after the    *)
(* other (tests/main.py a) or started while another awaits its GET.        *)
(***************************************************************************)
InitImage ==
    /\ InitApi
    /\ InitRequestIdle
    /\ InitWaitIdle
    /\ InitOpIdle
    /\ cached_bytes = None
    /\ callers = [c \in Callers |-> Idle]
    /\ ncalls = 0
    /\ gets = 0
    /\ failed = 0
    /\ cache_writes = <<>>
    /\ returns = <<>>
    /\ files = [p \in Paths |-> None]
    /\ concurrent \in BOOLEAN
    /\ InitSignatureIdle
    /\ InitClientIdle

NextImage ==
    \/ \E c \in Callers : get_bytes(c)
    \/ \E c \in Callers, p \in Paths : download(c, p)
    \/ \E c \in Callers, b \in Bytes : get_returned(c, b)
    \/ \E c \in Callers : get_raised(c)

SpecImage == InitImage /\ [][NextImage]_vars

(***************************************************************************)
(* SpecSignature: the methods of Signature applied to two Signature        *)
(* objects that differ in their headers only.                              *)
(***************************************************************************)
InitSignature ==
    /\ retry_after = None
    /\ token = "t1"
    /\ InitRequestIdle
    /\ InitWaitIdle
    /\ InitOpIdle
    /\ InitImageIdle
    /\ InitClientIdle
    /\ headers \in Dicts(HeaderNames, {<<"1">>}, MaxHeaders)
    /\ other_headers = headers
    /\ bucket = <<"b">>
    /\ object = <<"o">>
    /\ sub_resources = <<>>
    /\ edits = 0
    /\ sig_out = None

\* the second mapping is given a header, or the value of one changes
set_header(k, v) ==
    /\ sig_out = None
    /\ edits < MaxEdits
    /\ edits' = edits + 1
    /\ other_headers' = DictSet(other_headers, k, v)
    /\ UNCHANGED <<headers, bucket, object, sub_resources, sig_out>>
    /\ UNCHANGED <<apiVars, reqVars, waitVars, opVars, calls, imgVars,
                   clientVars>>

\* the second mapping loses a header
del_header(k) ==
    /\ sig_out = None
    /\ edits < MaxEdits
    /\ HasKey(other_headers, k)
    /\ edits' = edits + 1
    /\ other_headers' = DictDel(other_headers, k)
    /\ UNCHANGED <<headers, bucket, object, sub_resources, sig_out>>
    /\ UNCHANGED <<apiVars, reqVars, waitVars, opVars, calls, imgVars,
                   clientVars>>

SignatureCalled(fn, value, other_value) ==
    /\ sig_out = None
    /\ sig_out' = Some([fn |-> fn, value |-> value, other_value |-> other_value])
    /\ UNCHANGED <<headers, other_headers, bucket, object, sub_resources, edits>>
    /\ UNCHANGED <<apiVars, reqVars, waitVars, opVars, calls, imgVars,
                   clientVars>>

call_CanonicalizedOSSHeaders ==
    SignatureCalled("CanonicalizedOSSHeaders",
                    CanonicalizedOSSHeaders(headers),
                    CanonicalizedOSSHeaders(other_headers))

call_CanonicalizedResource ==
    SignatureCalled("CanonicalizedResource",
                    CanonicalizedResource(bucket, object, sub_resources),
                    CanonicalizedResource(bucket, object, sub_resources))

call_make_signature ==
    SignatureCalled("make_signature",
                    make_signature(headers, bucket, object, sub_resources),
                    make_signature(other_headers, bucket, object, sub_resources))

\* main.py line 269: the signature made, _signature stores it in the
\* mapping it was made from
add_authorization ==
    /\ \E out \in sig_out :
        /\ out.fn = "make_signature"
        /\ \E sig \in out.value.returned :
            headers' = DictSet(headers, Authorization, AuthorizationValue(sig))
    /\ ~HasKey(headers, Authorization)
    /\ UNCHANGED <<other_headers, bucket, object, sub_resources, edits,
                   sig_out>>
    /\ UNCHANGED <<apiVars, reqVars, waitVars, opVars, calls, imgVars,
                   clientVars>>

NextSignature ==
    \/ \E k \in HeaderNames, v \in HeaderValues : set_header(k, v)
    \/ \E k \in HeaderNames : del_header(k)
    \/ call_CanonicalizedOSSHeaders
    \/ call_make_signature
    \/ add_authorization

SpecSignature == InitSignature /\ [][NextSignature]_vars

(***************************************************************************)
(* SpecResource: the methods of Signature that read the bucket, the object *)
(* and the sub-resources, applied to every such triple of the model.       *)
(***************************************************************************)
InitResource ==
    /\ retry_after = None
    /\ token = "t1"
    /\ InitRequestIdle
    /\ InitWaitIdle
    /\ InitOpIdle
    /\ InitImageIdle
    /\ InitClientIdle
    /\ headers = DefaultHeaders
    /\ other_headers = DefaultHeaders
    /\ bucket \in Buckets
    /\ object \in Objects
    /\ sub_resources \in Dicts(SubKeys, HeaderValues, Cardinality(SubKeys))
    /\ edits = 0
    /\ sig_out = None

NextResource ==
    \/ call_CanonicalizedResource
    \/ call_make_signature

SpecResource == InitResource /\ [][NextResource]_vars

(***************************************************************************)
(* Operations that run concurrently on one PicWish client (tests/main.py   *)
(* b): each coroutine runs enhance or remove_background with               *)
(* no_watermark=False, and the event loop switches coroutines at every     *)
(* await.  The server's rate limits are left to SpecRequest.               *)
(***************************************************************************)
\* lines 97-102: the token is random digits and a uuid4, taken here as
\* never drawn twice
NewToken(as) == <<"token", Len(as) + 1>>

\* lines 93-102: API(http, retry_after, route)
NewApi(as, route) ==
    [http |-> client.http, retry_after |-> client.retry_after,
     route |-> route, token |-> NewToken(as)]

\* lines 220-221: _init_api builds an API object of its own for the call
init_api_cached(as, route) ==
    IF as = <<>> THEN <<NewApi(as, route)>>
    ELSE [as EXCEPT ![1].route = route]
init_api(as, route) == Append(as, NewApi(as, route))

\* coroutine c issues a request on the transport
OpSend(o, method, auth, path, id) ==
    [o EXCEPT !.requests =
        Append(@, [method |-> method, auth |-> auth, url |-> <<path, id>>])]

\* lines 339-340, 365-366, 298-300: the operation is called; it builds its
\* API object and asks for the upload authorization
op_call(c, name) ==
    /\ ops[c].pc = "idle"
    /\ apis' = init_api(apis, Route(name))
    /\ LET a == Len(apis')
       IN  ops' = [ops EXCEPT
                    ![c] = OpSend([@ EXCEPT !.name = name, !.pc = "oss",
                                              !.api = a],
                                  "POST", Bearer(apis'[a].token),
                                  "/authorizations/oss", "")]
    /\ UNCHANGED client
    /\ UNCHANGED <<apiVars, reqVars, waitVars, opVars, calls, imgVars, sigVars>>

OpRaised(o, r, e) ==
    [o EXCEPT !.pc = "raised", !.answers = Append(@, r), !.result = Raised(e)]

\* lines 112-137, then 300-303, 303-311, 312-313 and 58-61: the transport
\* answers the request coroutine c awaits, and c runs to its next await
op_answer(c, r) ==
    LET o == ops[c]
        api == apis[o.api]
        got == [o EXCEPT !.answers = Append(@, r)]
    IN  /\ o.pc \in {"oss", "put", "create", "poll"}
        /\ ops' = [ops EXCEPT ![c] =
            IF IsError(r)
            THEN OpRaised(o, r, PicwishError(api.token, r))
            ELSE CASE o.pc = "oss" ->
                        IF r.data.oss = None
                        THEN OpRaised(o, r, Exception("KeyError"))
                        ELSE OpSend([got EXCEPT !.pc = "put"],
                                    "PUT", "OSS", "oss", "")
                   [] o.pc = "put" ->
                        IF r.data.resource_id = None
                        THEN OpRaised(o, r, Exception("KeyError"))
                        ELSE OpSend([got EXCEPT !.pc = "create"],
                                    "POST", Bearer(api.token), api.route.task, "")
                   [] o.pc = "create" ->
                        IF r.data.task_id = None
                        THEN OpRaised(o, r, Exception("KeyError"))
                        ELSE LET id == CHOOSE id \in r.data.task_id : TRUE
                             IN  OpSend([got EXCEPT
                                          !.pc = "poll",
                                          !.task = Some([api |-> o.api, id |-> id])],
                                        "GET", Bearer(api.token), api.route.task, id)
                   [] o.pc = "poll" ->
                        IF ~Terminal(r)
                        THEN [got EXCEPT !.pc = "sleep",
                                         !.slept = Append(@, client.sleep_duration)]
                        ELSE IF \/ r.data.image = None
                                \/ (o.name = "remove_background" /\ r.data.mask = None)
                        THEN OpRaised(o, r, Exception("KeyError"))
                        ELSE [got EXCEPT
                                !.pc = "done",
                                !.result = Returned(
                                    [url |-> r.data.image,
                                     watermark |-> Watermark(FALSE),
                                     mask |-> IF o.name = "remove_background"
                                              THEN r.data.mask ELSE None])]]
        /\ UNCHANGED <<client, apis>>
        /\ UNCHANGED <<apiVars, reqVars, waitVars, opVars, calls, imgVars, sigVars>>

\* line 112 raises in coroutine c
op_http_raises(c) ==
    /\ ops[c].pc \in {"oss", "put", "create", "poll"}
    /\ ops' = [ops EXCEPT ![c].pc = "raised",
                          ![c].result = Raised(Exception("TransportError"))]
    /\ UNCHANGED <<client, apis>>
    /\ UNCHANGED <<apiVars, reqVars, waitVars, opVars, calls, imgVars, sigVars>>

\* line 61, then line 58: the sleep of coroutine c ends and its Task polls
op_wake(c) ==
    /\ ops[c].pc = "sleep"
    /\ \E t \in ops[c].task :
        ops' = [ops EXCEPT ![c] =
                    OpSend([@ EXCEPT !.pc = "poll"], "GET",
                           Bearer(apis[t.api].token), apis[t.api].route.task, t.id)]
    /\ UNCHANGED <<client, apis>>
    /\ UNCHANGED <<apiVars, reqVars, waitVars, opVars, calls, imgVars, sigVars>>

\* what the server answers to the request coroutine c awaits: at most
\* MaxPolls envelopes that do not end its wait
ClientAnswers(c) ==
    {Resp(500, None, NoData)} \cup
    CASE ops[c].pc = "oss" -> Ok({NoData, [NoData EXCEPT !.oss = Some("o1")]})
      [] ops[c].pc = "put" -> Ok({[NoData EXCEPT !.resource_id = Some("r1")]})
      [] ops[c].pc = "create" ->
            Ok({[NoData EXCEPT !.task_id = Some(id)] : id \in TaskIds})
      [] ops[c].pc = "poll" ->
            Ok({d \in {[NoData EXCEPT !.progress = Some(50)]} :
                    Len(ops[c].slept) < MaxPolls}
               \cup {[NoData EXCEPT !.image = Some(u), !.mask = Some("m1")] :
                        u \in {"u1", "u2"}})
      [] OTHER -> {}

(***************************************************************************)
(* SpecClient: the coroutines call operations on one client.               *)
(***************************************************************************)
InitClient ==
    /\ retry_after = None
    /\ token = "t1"
    /\ InitRequestIdle
    /\ InitWaitIdle
    /\ InitOpIdle
    /\ InitImageIdle
    /\ InitSignatureIdle
    /\ client \in [http : {"http"}, sleep_duration : {1},
                   retry_after : RetryAfters]
    /\ apis = <<>>
    /\ ops = [c \in Coroutines |-> IdleOp]

NextClient ==
    \/ \E c \in Coroutines, name \in {"enhance", "remove_background"} :
        op_call(c, name)
    \/ \E c \in Coroutines : \E r \in ClientAnswers(c) : op_answer(c, r)
    \/ \E c \in Coroutines : op_http_raises(c)
    \/ \E c \in Coroutines : op_wake(c)

SpecClient == InitClient /\ [][NextClient]_vars

(***************************************************************************)
(* What the claims call a rate-limit response, a success response and a    *)
(* failed response, stated on the response alone.                          *)
(***************************************************************************)
VendorStatusAccepted(r) == r.api_status \in {None, Some(0), Some(200)}
SuccessResponse(r) ==
    /\ r.status_code \in 200..399
    /\ VendorStatusAccepted(r)
FailedResponse(r) ==
    \/ r.status_code \in 400..599
    \/ ~VendorStatusAccepted(r)
AllRateLimited(s) == \A j \in 1..Len(s) : RateLimitResponse(s[j])

C3_NoRetryWithoutRetryAfter ==
    (/\ retry_after = None
     /\ responses # <<>>
     /\ RateLimitResponse(responses[1]))
    => /\ rpc = "raised"
       /\ \E e \in rresult.raised : e.kind = "PicwishError"
       /\ rresult.returned = None
       /\ Len(sent) = 1
       /\ Len(responses) = 1
       /\ rsleeps = 0

C3_Witness ==
    /\ retry_after = None
    /\ Len(responses) = 1
    /\ responses[1].api_status = Some(429)
    /\ responses[1].status_code = 200
    /\ rpc = "raised"

\* the j-th response of this request was treated as a success: request
\* returned it, without raising and without another transport call
TreatedAsSuccess(j) ==
    /\ j = Len(responses)
    /\ rpc = "returned"
    /\ rresult = [returned |-> Some(responses[j]), raised |-> None]

\* C4 as stated: a response is treated as a success if and only if its HTTP
\* status is in 200-399 and its vendor status is absent, 0 or 200.
C4_SuccessIff200To399 ==
    \A j \in 1..Len(responses) :
        TreatedAsSuccess(j) <=> SuccessResponse(responses[j])

\* C4 amended: a response is treated as a success if and only if its HTTP
\* status is outside 400-599 and its vendor status is absent, 0 or 200.
C4_SuccessIffNot400To599 ==
    \A j \in 1..Len(responses) :
        TreatedAsSuccess(j) <=>
            (/\ responses[j].status_code \notin 400..599
             /\ VendorStatusAccepted(responses[j]))

\* C4 witness: a success after a retry, and an HTTP status beyond 599
\* returned as a success
C4_Witness ==
    /\ Len(responses) = 2
    /\ TreatedAsSuccess(2)
    /\ responses[2].status_code = 600
    /\ responses[2].api_status = Some(0)

\* C5: a failed response that is not taken as a rate-limit retry makes
\* request raise PicwishError with the response's HTTP status and vendor
\* status, with no transport call and no sleep after it.
C5_FailedResponseRaises ==
    \A j \in 1..Len(responses) :
        (/\ FailedResponse(responses[j])
         /\ ~(RateLimitResponse(responses[j]) /\ retry_after # None))
        => /\ j = Len(responses)
           /\ rpc = "raised"
           /\ rresult =
                [returned |-> None,
                 raised |-> Some([kind |-> "PicwishError",
                                  token |-> token,
                                  status_code |-> Some(responses[j].status_code),
                                  api_status |-> responses[j].api_status])]
           /\ Len(sent) = j
           /\ rsleeps = j - 1

\* C5 witness: a vendor error on a 200 answer, after one retry
C5_Witness ==
    /\ Len(responses) = 2
    /\ responses[2].status_code = 200
    /\ responses[2].api_status = Some(-1)
    /\ rpc = "raised"

(***************************************************************************)
(* Task.wait, under SpecWait.                                              *)
(***************************************************************************)
\* a terminal poll response: data.progress == 100 or a non-empty data.image
TerminalResponse(r) ==
    \/ r.data.progress = Some(100)
    \/ (r.data.image # None /\ r.data.image # Some(""))
CallsOf(name) == {j \in 1..Len(calls) : calls[j].name = name}

\* C1: wait sleeps once after each non-terminal poll response and never
\* after a terminal one; when k non-terminal responses were followed by a
\* terminal one, wait has made k + 1 get_task_result calls, slept k times
\* and returned the last response.
C1_WaitUntilTerminal ==
    /\ wsleeps = Cardinality({j \in 1..Len(polls) : ~TerminalResponse(polls[j])})
    /\ (/\ polls # <<>>
        /\ \A j \in 1..(Len(polls) - 1) : ~TerminalResponse(polls[j])
        /\ TerminalResponse(Last(polls)))
       => /\ wpc = "returned"
          /\ wresult = Returned(Last(polls))
          /\ Cardinality(CallsOf("get_task_result")) = Len(polls)
          /\ wsleeps = Len(polls) - 1

\* C1 witness: the spec's case and the longest one, ended by an image
C1_Witness ==
    /\ Len(polls) = MaxPolls + 1
    /\ polls[1].data.progress = Some(50)
    /\ Last(polls).data.image = Some("u1")
    /\ wpc = "returned"
    /\ wsleeps = MaxPolls

(***************************************************************************)
(* text_to_image, under SpecT2I.                                           *)
(***************************************************************************)
\* an attempt failed while polling with a block status
BlockedAttempt(a) ==
    \E e \in a.raised :
        e.kind = "PicwishError" /\ e.api_status \in {Some(-1), Some(-10)}
\* an attempt completed: its wait returned an envelope that holds images
CompletedAttempt(a) ==
    \E r \in a.returned : r.data.images # None

\* C6: when the first k attempts were blocked and attempt k + 1 completed,
\* text_to_image has returned the images of attempt k + 1 after k + 1
\* create-task calls; when all max_attempts attempts were blocked, it has
\* raised the error of the last one after max_attempts create-task calls.
C6_RetryBlockedAttempts ==
    (op = "text_to_image" /\ max_attempts >= 1 /\ attempts # <<>>) =>
        /\ (/\ \A j \in 1..(Len(attempts) - 1) : BlockedAttempt(attempts[j])
            /\ CompletedAttempt(Last(attempts)))
           => /\ pc = "done"
              /\ \E r \in Last(attempts).returned :
                    result = Some([images |-> r.data.images])
              /\ Cardinality(CallsOf("create_task")) = Len(attempts)
        /\ (/\ Len(attempts) = max_attempts
            /\ \A j \in 1..Len(attempts) : BlockedAttempt(attempts[j]))
           => /\ pc = "raised"
              /\ oerr = Last(attempts).raised
              /\ Cardinality(CallsOf("create_task")) = max_attempts

\* an error that is not a PicwishError with a block status
NotBlockError(e) ==
    ~(e.kind = "PicwishError" /\ e.api_status \in {Some(-1), Some(-10)})

\* C7: a call of text_to_image that raised an error other than a
\* PicwishError with a block status is the last call of the operation, and
\* that error is what text_to_image raises, whatever max_attempts is.
C7_OtherErrorsSurface ==
    op = "text_to_image" =>
        \A j \in 1..Len(calls) :
            \A e \in calls[j].raised :
                NotBlockError(e) =>
                    /\ j = Len(calls)
                    /\ rpc = "raised"
                    /\ pc \in {"wait", "raised"}
                    /\ pc = "wait" => wpc = "raised"
                    /\ pc = "raised" => oerr = Some(e)

\* C7 witness: a poll of the second of three attempts raised a server
\* error, and text_to_image raised it with an attempt left
C7_Witness ==
    /\ op = "text_to_image"
    /\ max_attempts = 3
    /\ Len(attempts) = 2
    /\ BlockedAttempt(attempts[1])
    /\ pc = "raised"
    /\ \E e \in oerr : e.kind = "PicwishError" /\ e.status_code = Some(500)
    /\ Last(calls).name = "get_task_result"

(***************************************************************************)
(* enhance and remove_background, under SpecImageOp.                       *)
(***************************************************************************)
\* C10: with no_watermark false no get_image_url call is made and the
\* result has the data.image of the envelope wait returned and watermark
\* true; with no_watermark true the one get_image_url call is made after
\* wait returned, as the last call, and the result has the data.image of
\* its response and watermark false.
C10_MaterializeResult ==
    op \in {"enhance", "remove_background"} =>
        /\ ~no_watermark => CallsOf("get_image_url") = {}
        /\ CallsOf("get_image_url") # {}
           => /\ CallsOf("get_image_url") = {Len(calls)}
              /\ wpc = "returned"
              /\ calls[Len(calls) - 1].name = "get_task_result"
        /\ pc = "done"
           => \E res \in result :
                IF no_watermark
                THEN /\ CallsOf("get_image_url") = {Len(calls)}
                     /\ rargs.url[1] = Route(op).image_url
                     /\ \E r \in rresult.returned : res.url = r.data.image
                     /\ res.watermark = FALSE
                ELSE /\ \E r \in wresult.returned : res.url = r.data.image
                     /\ res.watermark = TRUE

\* C10 witnesses are both cases: the image-url response names another
\* image than the completion envelope
C10_Witness ==
    /\ op = "remove_background"
    /\ pc = "done"
    /\ no_watermark
    /\ \E r \in wresult.returned : r.data.image = Some("u1")
    /\ \E res \in result : res.url = Some("u2")

(***************************************************************************)
(* The byte cache of a result, under SpecImage.                            *)
(***************************************************************************)
\* C8: on one result, whatever the calls and however they overlap, at most
\* one GET is issued (GETs that raised are not counted against the claim)
\* and the cache, once populated, never takes another value.
C8_FetchedAtMostOnce ==
    /\ gets - failed =< 1
    /\ \A j \in 1..Len(cache_writes) : cache_writes[j] = cache_writes[1]

\* C9: when the calls do not overlap, at most one GET is answered, and
\* once it is, no other GET is issued, every get_bytes returns its bytes
\* and every download has written them.
C9_SequentialCallsCached ==
    ~concurrent =>
        /\ Len(cache_writes) =< 1
        /\ gets =< failed + 1
        /\ \A j \in 1..Len(cache_writes) :
            /\ cached_bytes = Some(cache_writes[1])
            /\ gets = failed + 1
            /\ \A c \in Callers : callers[c].pc = "idle"
            /\ \A k \in 1..Len(returns) : returns[k] = cache_writes[1]
            /\ \A p \in Paths :
                files[p] = None \/ files[p] = Some(cache_writes[1])

\* C9 witness: a get_bytes answered with empty bytes, a second get_bytes
\* and a download served without another GET
C9_Witness ==
    /\ ~concurrent
    /\ ncalls = 3
    /\ gets = 1
    /\ returns = <<"", "", "">>
    /\ files["p1"] = Some("")

(***************************************************************************)
(* The operations that take a source image, under SpecImageOp.             *)
(***************************************************************************)
\* the request in flight ended on an error response of the server that
\* was not retried
ServerFailure ==
    /\ rpc = "raised"
    /\ responses # <<>>
    /\ Len(sent) = Len(responses)
    /\ FailedResponse(Last(responses))
    /\ ~(RateLimitResponse(Last(responses)) /\ retry_after # None)

MalformedSources == {"other", "missing_path", "unknown_bytes"}

C18_ExpandResults ==
    (op = "expand" /\ image_count >= 1 /\ wpc = "returned" /\ pc # "wait") =>
        \E r \in wresult.returned :
            IF \A k \in 1..image_count : r.data.image_n[k] # None
            THEN /\ pc = "done"
                 /\ \E res \in result :
                    /\ Len(res.images) = image_count
                    /\ \A k \in 1..image_count :
                        res.images[k] = r.data.image_n[k]
            ELSE /\ pc = "raised"
                 /\ \E e \in oerr : e.kind = "KeyError"

\* C18 witness: expand returned the largest number of results
C18_Witness ==
    /\ op = "expand"
    /\ image_count = MaxImageCount
    /\ pc = "done"
    /\ \E res \in result : Len(res.images) = MaxImageCount

WaitReturnedOn(j) ==
    /\ j = Len(polls)
    /\ wpc = "returned"
    /\ wresult = Returned(polls[j])

\* C20 as stated: for ocr, colorize and expand, wait returns on a poll
\* response if and only if it has a non-empty data.image.
C20_ImagePresenceOnly ==
    op \in {"ocr", "colorize", "expand"} =>
        \A j \in 1..Len(polls) :
            WaitReturnedOn(j) <=>
                (polls[j].data.image # None /\ polls[j].data.image # Some(""))

\* C20 amended: for ocr, colorize and expand, as for every operation,
\* wait returns on a poll response if and only if it has a non-empty
\* data.image or a data.progress of 100.
C20_ImageOrProgress ==
    op \in {"ocr", "colorize", "expand"} =>
        \A j \in 1..Len(polls) :
            WaitReturnedOn(j) <=> TerminalResponse(polls[j])

\* C20 witness: the wait of ocr ended by progress 100 without an image
C20_Witness ==
    /\ op = "ocr"
    /\ wpc = "returned"
    /\ Last(polls).data.progress = Some(100)
    /\ Last(polls).data.image = None

(***************************************************************************)
(* Signature, under SpecSignature and, for the resource, SpecResource.     *)
(***************************************************************************)
\* a header whose lower-cased name starts with x-oss-
XOssNamed(e) ==
    /\ Len(e[1]) >= 6
    /\ SubSeq(Lower(e[1]), 1, 6) = <<"x", "-", "o", "s", "s", "-">>
XOssPart(hs) == SelectSeq(hs, XOssNamed)
NamedContentType(e) == e[1] = ContentType
SignedHeader(e) == XOssNamed(e) \/ NamedContentType(e)
SignedPart(hs) == SelectSeq(hs, SignedHeader)
MakeSignatureCalled == \E out \in sig_out : out.fn = "make_signature"

\* C13 as stated: two header mappings with the same x-oss- headers give
\* the same make_signature result.
C13_NonOssHeadersUnsigned ==
    \A out \in sig_out :
        (out.fn = "make_signature" /\ XOssPart(headers) = XOssPart(other_headers))
            => out.value = out.other_value

\* C13 amended: two header mappings with the same x-oss- headers and the
\* same Content-Type header give the same make_signature result.
C13_OnlyOssAndContentTypeSigned ==
    \A out \in sig_out :
        (out.fn = "make_signature"
         /\ SignedPart(headers) = SignedPart(other_headers))
            => out.value = out.other_value

\* C13 witness: two mappings that differ in the X-Os header were signed
C13_Witness ==
    /\ MakeSignatureCalled
    /\ SignedPart(headers) = SignedPart(other_headers)
    /\ HasKey(headers, XOs)
    /\ HasKey(other_headers, XOs)
    /\ GetItem(headers, XOs) # GetItem(other_headers, XOs)
    /\ \E out \in sig_out : out.value.returned # None

\* out is the x-oss- headers of hs, each as lowercased-name:value, in
\* ascending order of the lower-cased name, joined by newlines
XOssIndices(hs) == {j \in 1..Len(hs) : XOssNamed(hs[j])}
IsCanonical(out, hs) ==
    \E f \in [1..Cardinality(XOssIndices(hs)) -> XOssIndices(hs)] :
        /\ \A a, b \in DOMAIN f : a # b => f[a] # f[b]
        /\ \A a, b \in DOMAIN f :
            a < b => ~StrLess(Lower(hs[f[b]][1]), Lower(hs[f[a]][1]))
        /\ out = Join(<<"\n">>,
                      [k \in DOMAIN f |->
                        Lower(hs[f[k]][1]) \o <<":">> \o hs[f[k]][2]])
SameMapping(h1, h2) ==
    {h1[j] : j \in 1..Len(h1)} = {h2[j] : j \in 1..Len(h2)}
NoCaseCollision(hs) ==
    \A j, k \in 1..Len(hs) : Lower(hs[j][1]) = Lower(hs[k][1]) => j = k

\* C14 as stated: for every header mapping CanonicalizedOSSHeaders is the
\* canonical rendering of its x-oss- headers, and two mappings with the
\* same entries in another insertion order give the same result.
C14_CanonicalForEveryMapping ==
    \A out \in sig_out :
        out.fn = "CanonicalizedOSSHeaders" =>
            /\ IsCanonical(out.value, headers)
            /\ IsCanonical(out.other_value, other_headers)
            /\ SameMapping(headers, other_headers)
                => out.value = out.other_value

\* C14 amended: the same, for header mappings in which no two names are
\* equal up to case.
C14_CanonicalWithoutCaseCollision ==
    \A out \in sig_out :
        out.fn = "CanonicalizedOSSHeaders" =>
            /\ NoCaseCollision(headers) => IsCanonical(out.value, headers)
            /\ NoCaseCollision(other_headers)
                => IsCanonical(out.other_value, other_headers)
            /\ (SameMapping(headers, other_headers) /\ NoCaseCollision(headers))
                => out.value = out.other_value

\* C14 witness: X-Oss-Date inserted before X-Oss-A in one mapping and
\* after it in the other, with a header that is not signed
C14_Witness ==
    /\ \E out \in sig_out :
        /\ out.fn = "CanonicalizedOSSHeaders"
        /\ out.value = <<"x", "-", "o", "s", "s", "-", "a", ":", "1", "\n",
                         "x", "-", "o", "s", "s", "-", "d", "a", "t", "e",
                         ":", "1">>
    /\ SameMapping(headers, other_headers)
    /\ headers = <<<<XOssDate, <<"1">>>>, <<XOssA, <<"1">>>>, <<XOs, <<"1">>>>>>
    /\ other_headers[Len(other_headers)][1] = XOssDate

\* the key=value pairs of the sub-resources in iteration order, after ?
QueryPart(sub) ==
    IF sub = <<>> THEN <<>>
    ELSE <<"?">> \o Join(<<"&">>, [j \in 1..Len(sub) |->
                                    sub[j][1] \o <<"=">> \o sub[j][2]])

\* C15 as stated: CanonicalizedResource is / bucket / object, then ? and
\* the pairs when there are sub-resources.
C15_SlashBucketSlashObject ==
    \A out \in sig_out :
        out.fn = "CanonicalizedResource" =>
            out.value = <<"/">> \o bucket \o <<"/">> \o object
                        \o QueryPart(sub_resources)

\* C15 amended: CanonicalizedResource is / bucket when the bucket is not
\* empty, then / object when the object is not empty, then ? and the pairs
\* when there are sub-resources.
C15_EmptySegmentsOmitted ==
    \A out \in sig_out :
        out.fn = "CanonicalizedResource" =>
            out.value = (IF bucket = <<>> THEN <<>> ELSE <<"/">> \o bucket)
                        \o (IF object = <<>> THEN <<>> ELSE <<"/">> \o object)
                        \o QueryPart(sub_resources)

\* C15 witness: no bucket, and two sub-resources inserted b before a
C15_Witness ==
    /\ bucket = <<>>
    /\ \E out \in sig_out :
        /\ out.fn = "CanonicalizedResource"
        /\ out.value = <<"/", "o", "?", "b", "=", "1", "&", "a", "=", "2">>

\* hs has an entry under that very name
HasEntry(hs, name) == \E j \in 1..Len(hs) : hs[j][1] = name

\* C16: make_signature on a mapping without a Content-Type entry or
\* without an X-Oss-Date entry raises KeyError and gives no signature.
C16_MissingHeaderRaises ==
    \A out \in sig_out :
        out.fn = "make_signature" =>
            /\ (~HasEntry(headers, ContentType) \/ ~HasEntry(headers, XOssDate))
                => /\ out.value.returned = None
                   /\ \E e \in out.value.raised : e.kind = "KeyError"
            /\ (~HasEntry(other_headers, ContentType)
                \/ ~HasEntry(other_headers, XOssDate))
                => /\ out.other_value.returned = None
                   /\ \E e \in out.other_value.raised : e.kind = "KeyError"

\* C16 witness: a mapping with Content-Type and x-oss- headers but no
\* X-Oss-Date raised, and one with both was signed
C16_Witness ==
    /\ HasEntry(headers, ContentType)
    /\ HasEntry(headers, XOssA)
    /\ ~HasEntry(headers, XOssDate)
    /\ HasEntry(other_headers, XOssDate)
    /\ \E out \in sig_out :
        /\ out.fn = "make_signature"
        /\ out.value.raised # None
        /\ out.other_value.returned # None

(***************************************************************************)
(* Concurrent operations on one client, under SpecClient.                  *)
(***************************************************************************)
RunningOps == {c \in Coroutines : ops[c].pc # "idle"}

\* every request of coroutine c went to the upload endpoints or to the
\* task route of c's own operation, under the token of c's own API object
OwnRequests(c) ==
    \A j \in 1..Len(ops[c].requests) :
        LET q == ops[c].requests[j]
        IN  IF q.method = "PUT"
            THEN q.auth = "OSS"
            ELSE /\ q.auth = apis[ops[c].api].token
                 /\ q.url[1] \in {"/authorizations/oss", Route(ops[c].name).task}

\* what coroutine c returned or raised follows from the answers to its own
\* requests
OwnResult(c) ==
    LET o == ops[c]
    IN  /\ o.pc = "done" =>
            /\ o.answers # <<>>
            /\ \E res \in o.result.returned :
                res.url = Last(o.answers).data.image
        /\ (o.pc = "raised" /\ o.answers # <<>> /\ FailedResponse(Last(o.answers)))
            => o.result =
                Raised([kind |-> "PicwishError",
                        token |-> apis[o.api].token,
                        status_code |-> Some(Last(o.answers).status_code),
                        api_status |-> Last(o.answers).api_status])
        /\ o.pc \notin {"done", "raised"} => o.result = NoResult

OperationsIsolated ==
    \A c \in RunningOps :
        /\ ops[c].api \in 1..Len(apis)
        /\ \A d \in RunningOps :
            d # c => /\ ops[d].api # ops[c].api
                     /\ apis[ops[d].api].token # apis[ops[c].api].token
        /\ \A t \in ops[c].task : t.api = ops[c].api
        /\ apis[ops[c].api].route = Route(ops[c].name)
        /\ apis[ops[c].api].retry_after = client.retry_after
        /\ apis[ops[c].api].http = client.http
        /\ OwnRequests(c)
        /\ OwnResult(c)

\* a step of one coroutine leaves the client's fields, every API object
\* that exists and the state of every other coroutine as they are
IsolatedStep ==
    /\ client' = client
    /\ \A a \in 1..Len(apis) : a \in 1..Len(apis') /\ apis'[a] = apis[a]
    /\ \A c \in Coroutines :
        ops'[c] # ops[c] => \A d \in Coroutines \ {c} : ops'[d] = ops[d]

\* C11: every running operation has an API object and a Task of its own,
\* with a token of its own; its requests carry that token and go to its
\* own route; its result follows from the answers to its own requests; no
\* step changes the client's fields, an API object or another operation.
C11_ConcurrentOperationsIsolated ==
    []OperationsIsolated /\ [][IsolatedStep]_vars

\* C11 witness: the coroutine that called second finished first, with
\* another operation and another image than the one still polling
C11_Witness ==
    /\ ops[1].api = 2
    /\ ops[2].api = 1
    /\ ops[1].name = "enhance"
    /\ ops[2].name = "remove_background"
    /\ ops[1].pc = "done"
    /\ ops[2].pc = "sleep"
    /\ \E res \in ops[1].result.returned : res.url = Some("u2")
    /\ OperationsIsolated

(***************************************************************************)
(* The life of one wait call, under SpecWait.                              *)
(***************************************************************************)
\* the state of the task as the caller of wait sees it
Lifecycle(w) ==
    CASE w = "idle" -> "created"
      [] w \in {"polling", "sleeping"} -> "polling"
      [] w = "returned" -> "ready"
      [] w = "raised" -> "failed"

LifecycleMoves ==
    {<<"created", "polling">>, <<"polling", "polling">>,
     <<"polling", "ready">>, <<"polling", "failed">>}

\* a step moves the task along the lifecycle, and leaves a task that is
\* ready or failed as it is: no poll, no sleep, the same outcome
LifecycleStep ==
    /\ Lifecycle(wpc') # Lifecycle(wpc)
        => <<Lifecycle(wpc), Lifecycle(wpc')>> \in LifecycleMoves
    /\ Lifecycle(wpc) \in {"ready", "failed"}
        => UNCHANGED <<waitVars, reqVars, calls>>

\* a terminal response or a raised poll is the last poll of the wait, no
\* sleep follows it, and the error of the poll is the error of wait
LifecycleOutcome ==
    /\ \A j \in 1..Len(polls) :
        Terminal(polls[j]) =>
            /\ j = Len(polls)
            /\ Lifecycle(wpc) = "ready"
            /\ wresult = Returned(polls[j])
            /\ Len(calls) = Len(polls)
            /\ wsleeps = Len(polls) - 1
    /\ \A j \in 1..Len(calls) :
        \A e \in calls[j].raised :
            /\ j = Len(calls)
            /\ rpc = "raised"
            /\ rresult = Raised(e)
            /\ wpc = "polling" \/ Lifecycle(wpc) = "failed"
            /\ Lifecycle(wpc) = "failed" =>
                /\ wresult = Raised(e)
                /\ wsleeps = Len(polls)
                /\ Len(calls) = Len(polls) + 1
    /\ Lifecycle(wpc) = "ready" => polls # <<>> /\ Terminal(Last(polls))
    /\ Lifecycle(wpc) = "failed" => calls # <<>> /\ Last(calls).raised # None

\* C21: a wait call moves only created -> polling -> ready or created ->
\* polling -> failed; once a poll returned a terminal response or raised,
\* the wait makes no further poll and no further sleep, and in the failed
\* case wait raises the error the poll raised.
C21_TaskLifecycle ==
    []LifecycleOutcome /\ [][LifecycleStep]_vars

\* C21 witness: a poll raised after a non-terminal one, and wait raised
\* its error
C21_Witness ==
    /\ wpc = "raised"
    /\ Len(polls) = 1
    /\ calls # <<>>
    /\ \E e \in Last(calls).raised :
        /\ e.kind = "PicwishError"
        /\ e.status_code = Some(500)
        /\ wresult = Raised(e)

(***************************************************************************)
(* Termination of Task.wait, under SpecWaitFair.                           *)
(***************************************************************************)
\* the request of a poll has ended with a terminal response or an error
PollAnswered ==
    /\ wpc = "polling"
    /\ \/ rpc = "raised"
       \/ rpc = "returned" /\ \E r \in rresult.returned : Terminal(r)

WaitEnded == wpc \in {"returned", "raised"}

\* every poll of the wait so far was answered by a non-terminal response
AllPending ==
    /\ wpc # "idle"
    /\ \A j \in 1..Len(polls) : Pending(polls[j])
    /\ \A j \in 1..Len(calls) : calls[j].raised = None

\* while every response is non-terminal the wait has not ended, it has
\* slept once per response and polled once per sleep, and no count of
\* attempts keeps it from polling again
PendingNeverEnds ==
    AllPending =>
        /\ ~WaitEnded
        /\ wsleeps = Len(polls)
        /\ Len(calls) = Len(polls) + (IF wpc = "polling" THEN 1 ELSE 0)
        /\ wpc = "sleeping" => ENABLED wait_sleep

\* C22: under fair scheduling, once the server has answered a poll with a
\* terminal response or an error, wait returns or raises; while every poll
\* response is non-terminal wait does not end, whatever their number, and
\* alternates one poll and one sleep.
C22_WaitLiveness ==
    (PollAnswered ~> WaitEnded) /\ []PendingNeverEnds

\* C22 witness: wait returned after MaxPolls non-terminal responses, one
\* of its polls having been rate limited and retried
C22_Witness ==
    /\ wpc = "returned"
    /\ wsleeps = MaxPolls
    /\ \A j \in 1..MaxPolls : Pending(polls[j])
    /\ rsleeps > 0
    /\ Len(calls) = MaxPolls + 1

(***************************************************************************)
(* Transport failures, under SpecRequest.                                  *)
(***************************************************************************)
\* the transport call in flight ends without a response
TransportFails ==
    /\ rpc = "sending"
    /\ rpc' # "sending"
    /\ responses' = responses

\* a transport failure ends the request with the transport's exception,
\* and a request that has raised makes no transport call and no sleep
TransportFailureStep ==
    /\ TransportFails =>
        /\ rpc' = "raised"
        /\ rresult' = Raised(Exception("TransportError"))
        /\ sent' = sent
        /\ rsleeps' = rsleeps
    /\ rpc = "raised" => UNCHANGED reqVars

\* the request that raised the transport's exception made one transport
\* call more than it got responses, all of them rate limits, and slept
\* once per response
TransportFailureLast ==
    rresult = Raised(Exception("TransportError")) =>
        /\ rpc = "raised"
        /\ Len(sent) = Len(responses) + 1
        /\ rsleeps = Len(responses)
        /\ \A j \in 1..Len(responses) : RateLimitResponse(responses[j])

\* C23: when the HTTP call raises, request makes no further transport
\* call and no sleep and raises that exception, on the first call and on
\* a call re-issued after a rate limit alike.
C23_TransportFailureSurfaces ==
    []TransportFailureLast /\ [][TransportFailureStep]_vars

\* C23 witness: the transport raised on the last re-issued request of a
\* rate-limit chain
C23_Witness ==
    /\ rpc = "raised"
    /\ rresult = Raised(Exception("TransportError"))
    /\ retry_after # None
    /\ Len(responses) = MaxRetries
    /\ Len(sent) = MaxRetries + 1
    /\ rsleeps = MaxRetries

(***************************************************************************)
(* The token of an operation, under SpecOperation.                         *)
(***************************************************************************)
\* the PicwishErrors among a set of exceptions carry the token
CarryToken(es) ==
    \A e \in es : e.kind = "PicwishError" => e.token = token

\* every transport call of the request in flight, the upload apart, has
\* the token as its bearer, and every PicwishError that a request, a call,
\* a wait, an attempt or the operation raised carries the token
TokenCarried ==
    /\ \A j \in 1..Len(sent) :
        sent[j].method # "PUT" => sent[j].auth = token
    /\ CarryToken(rresult.raised)
    /\ CarryToken(wresult.raised)
    /\ CarryToken(oerr)
    /\ \A j \in 1..Len(calls) : CarryToken(calls[j].raised)
    /\ \A j \in 1..Len(attempts) : CarryToken(attempts[j].raised)

\* C24: no step changes the token of the API instance; every request of
\* the operation other than the upload, re-issued ones and those of every
\* text_to_image attempt included, has it as bearer, and every PicwishError
\* raised carries it.
C24_TokenFixed ==
    []TokenCarried /\ [][token' = token]_vars

\* C24 witness: the first attempt of text_to_image was blocked, and a
\* poll of the second one is re-issued after a rate limit
C24_Witness ==
    /\ op = "text_to_image"
    /\ token = "t2"
    /\ Len(attempts) = 1
    /\ \E e \in attempts[1].raised :
        e.api_status = Some(-10) /\ e.token = "t2"
    /\ wpc = "polling"
    /\ rpc = "sending"
    /\ Len(sent) = 2
    /\ sent[2].auth = "t2"

(***************************************************************************)
(* Block statuses at task creation, under SpecT2I.                         *)
(***************************************************************************)
\* C25: text_to_image raises a PicwishError with vendor status -1 or -10
\* only when no attempt remains (i + 1 >= max_attempts), whether the
\* task-creation request or a poll request raised it; with attempts
\* remaining a new create+poll cycle starts instead.
C25_BlockRetriedAtCreateOrPoll ==
    (op = "text_to_image" /\ pc = "raised") =>
        \A e \in oerr : ~NotBlockError(e) => i + 1 >= max_attempts

(***************************************************************************)
(* The string make_signature signs, under SpecSignature.                   *)
(***************************************************************************)
NewLine == <<"\n">>

\* the six fields of a Signature with the headers hs, in order, each
\* followed by a newline but the last
SixFields(hs) ==
    Verb \o NewLine
    \o ContentMd5 \o NewLine
    \o GetItem(hs, ContentType) \o NewLine
    \o GetItem(hs, XOssDate) \o NewLine
    \o CanonicalizedOSSHeaders(hs) \o NewLine
    \o CanonicalizedResource(bucket, object, sub_resources)

\* what make_signature returned is the signature of the six fields
SignsSixFields(value, hs) ==
    \A sig \in value.returned :
        sig = HmacSha1Base64(AccessKeySecret, SixFields(hs))

\* what was signed is what the mapping gives with and without the
\* Authorization header
AuthorizationUnsigned ==
    \A out \in sig_out :
        out.fn = "make_signature" =>
            /\ SignsSixFields(out.value, headers)
            /\ SignsSixFields(out.value, DictDel(headers, Authorization))
            /\ SignsSixFields(out.other_value, other_headers)

\* C26: the string make_signature signs is verb, content_md5, the value
\* of Content-Type, the value of X-Oss-Date, the canonicalized headers and
\* the canonicalized resource, in that order, joined by newlines; the call
\* leaves the header mapping as it is, and the Authorization header added
\* to the mapping afterwards is no part of the string that was signed.
C26_StringToSign ==
    /\ []AuthorizationUnsigned
    /\ [][sig_out' # sig_out
            => headers' = headers /\ other_headers' = other_headers]_vars

\* C26 witness: a mapping with an x-oss- header was signed and has got
\* its Authorization header
C26_Witness ==
    /\ HasKey(headers, Authorization)
    /\ HasKey(headers, XOssA)
    /\ \E out \in sig_out :
        /\ out.fn = "make_signature"
        /\ \E sig \in out.value.returned :
            /\ GetItem(headers, Authorization) = AuthorizationValue(sig)
            /\ sig.string_to_sign
                = <<"P", "U", "T", "\n", "\n", "1", "\n", "1", "\n",
                    "x", "-", "o", "s", "s", "-", "a", ":", "1", "\n",
                    "x", "-", "o", "s", "s", "-", "d", "a", "t", "e", ":",
                    "1", "\n", "/", "b", "/", "o">>

(***************************************************************************)
(* The envelope wait returns to an operation, under SpecOperation.         *)
(***************************************************************************)
\* the envelope holds every field the operation reads from it
HasFieldsRead(r) ==
    CASE op \in {"ocr", "colorize"} -> r.data.image # None
      [] op \in {"enhance", "remove_background"} ->
            ~no_watermark => r.data.image # None
      [] op = "expand" ->
            \A n \in 1..image_count : r.data.image_n[n] # None
      [] op = "text_to_image" -> r.data.images # None
      [] OTHER -> TRUE

\* C27: the envelope Task.wait returned to an operation holds every field
\* the operation reads from it, and no operation has raised a KeyError
\* with a returned wait as its last call.
C27_EnvelopeSufficient ==
    (op # "" /\ wpc = "returned") =>
        /\ \A r \in wresult.returned : HasFieldsRead(r)
        /\ (pc = "raised" /\ Last(calls).name = "get_task_result")
            => \A e \in oerr : e.kind # "KeyError"

(***************************************************************************)
(* text_to_image for any attempt budget, under SpecT2I.                    *)
(***************************************************************************)
\* C28: whatever max_attempts is, zero and negative values included, a
\* call of text_to_image that has ended made at least one create-task
\* call, and it either returned the images of an envelope a wait returned
\* or raised a PicwishError.
C28_AtLeastOneCycle ==
    (op = "text_to_image" /\ pc \in {"done", "raised"}) =>
        /\ CallsOf("create_task") # {}
        /\ pc = "done" =>
            /\ attempts # <<>>
            /\ \E r \in Last(attempts).returned :
                result = Some([images |-> r.data.images])
        /\ pc = "raised" =>
            /\ oerr # None
            /\ \A e \in oerr : e.kind = "PicwishError"

====
